---- MODULE Spec2Model ----
(***************************************************************************)
(* RAGFIN1 API (src/RAGFIN1_DEPLOY/main.py): the /api/v1/query handler     *)
(* around the external chat-completion call, and the stateless endpoints   *)
(* /api/v1/rates, /api/v1/compare and /api/v1/recommend.                   *)
(*                                                                         *)
(* Text is a sequence of one-character strings, so that lowercasing,       *)
(* substring search and f-string interpolation are computed, not assumed.  *)
(* Decimal numbers (fees, rates, amounts, confidence) are integers in      *)
(* units of 1/10000.  The timestamp field of the responses is not          *)
(* modelled.                                                               *)
(***************************************************************************)
EXTENDS FiniteSets, Integers, Sequences, TLC

VARIABLES
    GROQ_API_KEY,  \* the credential in the process environment at start
    groq_client,   \* module-level client handle (main.py:25-27)
    pc,            \* per request: where its handling stands
    inbox,         \* per request: the JSON body as received
    request,       \* per request: the parsed QueryRequest
    upstream,      \* per request: what the external call produced
    calls,         \* per request: external calls issued so far
    sent,          \* per request: outcomes delivered to the caller
    call,          \* stateless endpoints: the request being served
    reply          \* stateless endpoints: the response to it

vars == <<GROQ_API_KEY, groq_client, pc, inbox, request, upstream, calls,
          sent, call, reply>>

queryVars == <<pc, inbox, request, upstream, calls, sent>>

(***************************************************************************)
(* Bounds.                                                                 *)
(***************************************************************************)
NumReqs == 2         \* query requests in flight together
MaxPad == 1          \* characters around the keyword in a question
MaxAmount == 3       \* amounts range over -MaxAmount..MaxAmount cents

(***************************************************************************)
(* Text.                                                                   *)
(***************************************************************************)
UpperCase == <<"A", "B", "C", "D", "E", "F", "G", "H", "I", "J", "K", "L",
               "M", "N", "O", "P", "Q", "R", "S", "T", "U", "V", "W", "X",
               "Y", "Z">>

LowerCase == <<"a", "b", "c", "d", "e", "f", "g", "h", "i", "j", "k", "l",
               "m", "n", "o", "p", "q", "r", "s", "t", "u", "v", "w", "x",
               "y", "z">>

\* str.lower() on one character.
LowerChar(c) ==
    IF \E i \in 1..Len(UpperCase) : UpperCase[i] = c
    THEN LowerCase[CHOOSE i \in 1..Len(UpperCase) : UpperCase[i] = c]
    ELSE c

\* str.lower()
lower(s) == [i \in 1..Len(s) |-> LowerChar(s[i])]

\* Python's `needle in hay` on strings.
Contains(hay, needle) ==
    \E i \in 1..(Len(hay) - Len(needle) + 1) :
        SubSeq(hay, i, i + Len(needle) - 1) = needle

compare == <<"c", "o", "m", "p", "a", "r", "e">>

FallbackHead ==
    <<"I", " ", "r", "e", "c", "e", "i", "v", "e", "d", " ", "y", "o", "u",
      "r", " ", "q", "u", "e", "s", "t", "i", "o", "n", ":", " ", "'">>

FallbackTail ==
    <<"'", ".", " ", "T", "o", " ", "p", "r", "o", "v", "i", "d", "e", " ",
      "A", "I", "-", "p", "o", "w", "e", "r", "e", "d", " ", "a", "n", "s",
      "w", "e", "r", "s", ",", " ", "p", "l", "e", "a", "s", "e", " ", "c",
      "o", "n", "f", "i", "g", "u", "r", "e", " ", "G", "R", "O", "Q", "_",
      "A", "P", "I", "_", "K", "E", "Y", ".">>

(***************************************************************************)
(* Values of the query endpoint.                                           *)
(***************************************************************************)
None == [kind |-> "None"]

Groq == [kind |-> "Groq"]

\* Module start-up: the client exists iff the credential is set.
InitClient(key) == IF key THEN Groq ELSE None

\* Python truthiness of the client handle, of None and of a dict.
Truthy(v) ==
    CASE v.kind = "None" -> FALSE
      [] v.kind = "dict" -> Len(v.keys) > 0
      [] OTHER -> TRUE

\* bool(request.context)
ContextUsed(context) == Truthy(context)

\* A variant that coerces a number to a string question.
MutValidBodyCoerce(body) ==
    /\ body.question.kind \in {"str", "int"}
    /\ body.context.kind \in {"absent", "null", "dict"}

\* Schema of the request body: question: str (required),
\* context: Optional[Dict[str, Any]] = None.
ValidBody(body) ==
    /\ body.question.kind = "str"
    /\ body.context.kind \in {"absent", "null", "dict"}

\* The QueryRequest object built from a valid body.
QueryRequest(body) ==
    [question |-> body.question.text,
     context  |-> IF body.context.kind = "dict" THEN body.context ELSE None]

QueryResponse(answer, intent, sources, context_used, confidence) ==
    [answer |-> answer, intent |-> intent, sources |-> sources,
     context_used |-> context_used, confidence |-> confidence]

Confidence_Fallback == 5000

Confidence_AI == 8500

Ok(response) == [status |-> 200, detail |-> "", body |-> <<response>>]

\* raise HTTPException(status_code=500, detail=str(e))
HTTPException(status_code, detail) ==
    [status |-> status_code, detail |-> detail, body |-> <<>>]

\* The framework's answer to a body that fails the schema.
Unprocessable == HTTPException(422, "validation error")

\* A variant of the fallback that reports the context like the AI branch.
MutFallbackContext(req) ==
    Ok(QueryResponse(FallbackHead \o req.question \o FallbackTail,
                     "informational", <<"system">>, ContextUsed(req.context),
                     Confidence_Fallback))

\* Branch taken when there is no client (main.py:74-83).
Fallback(req) ==
    Ok(QueryResponse(FallbackHead \o req.question \o FallbackTail,
                     "informational", <<"system">>, FALSE,
                     Confidence_Fallback))

\* A variant that searches the question without lowercasing it.
MutIntentCaseSensitive(question) ==
    IF Contains(question, compare) THEN "comparison" ELSE "informational"

\* "comparison" if "compare" in request.question.lower() else "informational"
Intent(question) ==
    IF Contains(lower(question), compare) THEN "comparison"
    ELSE "informational"

\* A variant that answers with the fallback when the call raises.
MutAfterCallSwallow(req, u) ==
    IF u.kind = "raise" THEN Fallback(req)
    ELSE IF Len(u.choices) = 0
         THEN HTTPException(500, "list index out of range")
    ELSE IF u.choices[1].isNone
         THEN HTTPException(500, "1 validation error for QueryResponse")
    ELSE Ok(QueryResponse(u.choices[1].content, Intent(req.question),
                          <<"groq_ai", "general_knowledge">>,
                          ContextUsed(req.context), Confidence_AI))

\* What follows the external call (main.py:102-114).  `u` is what the call
\* produced: an exception, or a completion with a list of choices whose
\* message content is a string or None.
AfterCall(req, u) ==
    IF u.kind = "raise" THEN HTTPException(500, u.msg)
    ELSE IF Len(u.choices) = 0
         THEN HTTPException(500, "list index out of range")
    ELSE IF u.choices[1].isNone
         THEN HTTPException(500, "1 validation error for QueryResponse")
    ELSE Ok(QueryResponse(u.choices[1].content, Intent(req.question),
                          <<"groq_ai", "general_knowledge">>,
                          ContextUsed(req.context), Confidence_AI))

\* The handler as a function of the client, the request and the upstream
\* result (ignored when there is no client).
query(client, req, u) ==
    IF ~Truthy(client) THEN Fallback(req) ELSE AfterCall(req, u)

(***************************************************************************)
(* Inputs of the query endpoint.                                           *)
(***************************************************************************)
Requests == 1..NumReqs

\* "compare" with every choice of letter case.
CaseVariants ==
    {[i \in 1..Len(compare) |->
        IF i \in S
        THEN UpperCase[CHOOSE k \in 1..Len(LowerCase) :
                           LowerCase[k] = compare[i]]
        ELSE compare[i]] : S \in SUBSET (1..Len(compare))}

RemoveAt(s, i) == SubSeq(s, 1, i - 1) \o SubSeq(s, i + 1, Len(s))

\* The keyword in every case, the keyword with one letter missing, nothing.
Cores ==
    CaseVariants \cup {RemoveAt(compare, i) : i \in 1..Len(compare)}
                 \cup {<<>>}

PadChars == {"x", "E"}

Pads == UNION {[1..n -> PadChars] : n \in 0..MaxPad}

Questions == {p \o c \o s : p \in Pads, c \in Cores, s \in Pads}

Str(text) == [kind |-> "str", text |-> text]

Contexts ==
    {[kind |-> "absent", keys |-> <<>>], [kind |-> "null", keys |-> <<>>],
     [kind |-> "dict", keys |-> <<>>],
     [kind |-> "dict", keys |-> <<"country">>]}

BadQuestions ==
    {[kind |-> "missing", text |-> <<>>], [kind |-> "int", text |-> <<"7">>]}

BadContexts ==
    {[kind |-> "list", keys |-> <<>>], [kind |-> "str", keys |-> <<>>]}

SampleQuestions == {<<"C", "o", "M", "p", "a", "r", "e">>, <<"x">>}

MalformedBodies ==
    [question : BadQuestions, context : Contexts \cup BadContexts]
    \cup [question : {Str(q) : q \in SampleQuestions}, context : BadContexts]

\* Bodies of a single request: every question, every context.
AllBodies ==
    [question : {Str(q) : q \in Questions}, context : Contexts]
    \cup MalformedBodies

\* Bodies of requests handled together.
Bodies ==
    [question : {Str(q) : q \in SampleQuestions},
     context : {c \in Contexts : c.kind # "absent"}]
    \cup {b \in MalformedBodies :
            b.question.kind = "missing" \/ b.context.kind = "list"}

Choice(content) == [isNone |-> FALSE, content |-> content]

NoContent == [isNone |-> TRUE, content |-> <<>>]

Raise(msg) == [kind |-> "raise", msg |-> msg, choices |-> <<>>]

Completion(choices) == [kind |-> "ok", msg |-> "", choices |-> choices]

\* What groq_client.chat.completions.create can produce.
UpstreamResults ==
    {Raise("Connection error."), Raise("Error code: 429"),
     Completion(<<>>), Completion(<<NoContent>>),
     Completion(<<Choice(<<"o", "k">>)>>),
     Completion(<<Choice(<<"W", "i", "s", "e">>), Choice(<<"n", "o">>)>>)}

Nothing == [kind |-> "nothing"]

NoCall == [endpoint |-> "none"]

(***************************************************************************)
(* The query endpoint, one step at a time.                                 *)
(***************************************************************************)
Init ==
    /\ GROQ_API_KEY \in BOOLEAN
    /\ groq_client = InitClient(GROQ_API_KEY)
    /\ pc = [r \in Requests |-> "idle"]
    /\ inbox = [r \in Requests |-> Nothing]
    /\ request = [r \in Requests |-> Nothing]
    /\ upstream = [r \in Requests |-> Nothing]
    /\ calls = [r \in Requests |-> 0]
    /\ sent = [r \in Requests |-> <<>>]
    /\ call = NoCall
    /\ reply = NoCall

\* A POST /api/v1/query arrives.
Receive(r, body) ==
    /\ pc[r] = "idle"
    /\ inbox' = [inbox EXCEPT ![r] = body]
    /\ pc' = [pc EXCEPT ![r] = "validate"]
    /\ UNCHANGED <<GROQ_API_KEY, groq_client, request, upstream, calls,
                   sent, call, reply>>

\* The framework checks the body against QueryRequest before the handler.
Validate(r) ==
    /\ pc[r] = "validate"
    /\ IF ValidBody(inbox[r])
       THEN /\ request' = [request EXCEPT ![r] = QueryRequest(inbox[r])]
            /\ pc' = [pc EXCEPT ![r] = "handler"]
            /\ sent' = sent
       ELSE /\ sent' = [sent EXCEPT ![r] = Append(@, Unprocessable)]
            /\ pc' = [pc EXCEPT ![r] = "done"]
            /\ request' = request
    /\ UNCHANGED <<GROQ_API_KEY, groq_client, inbox, upstream, calls,
                   call, reply>>

\* query() up to the external call: the fallback, or the call is issued.
Enter(r) ==
    /\ pc[r] = "handler"
    /\ IF ~Truthy(groq_client)
       THEN /\ sent' = [sent EXCEPT ![r] = Append(@, Fallback(request[r]))]
            /\ pc' = [pc EXCEPT ![r] = "done"]
            /\ calls' = calls
       ELSE /\ calls' = [calls EXCEPT ![r] = @ + 1]
            /\ pc' = [pc EXCEPT ![r] = "awaiting"]
            /\ sent' = sent
    /\ UNCHANGED <<GROQ_API_KEY, groq_client, inbox, request, upstream,
                   call, reply>>

\* The external service answers, or the call raises.
GroqReplies(r, u) ==
    /\ pc[r] = "awaiting"
    /\ upstream' = [upstream EXCEPT ![r] = u]
    /\ pc' = [pc EXCEPT ![r] = "returned"]
    /\ UNCHANGED <<GROQ_API_KEY, groq_client, inbox, request, calls, sent,
                   call, reply>>

\* A variant that drops the shared client handle when the call failed.
MutFinishDropsClient(r) ==
    /\ pc[r] = "returned"
    /\ sent' = [sent EXCEPT ![r] = Append(@, AfterCall(request[r], upstream[r]))]
    /\ pc' = [pc EXCEPT ![r] = "done"]
    /\ groq_client' = IF AfterCall(request[r], upstream[r]).status = 500
                      THEN None ELSE groq_client
    /\ UNCHANGED <<GROQ_API_KEY, inbox, request, upstream, calls, call,
                   reply>>

\* A variant that calls the service a second time when the first call
\* raised.
MutFinishRetry(r) ==
    /\ pc[r] = "returned"
    /\ IF upstream[r].kind = "raise" /\ calls[r] < 2
       THEN /\ calls' = [calls EXCEPT ![r] = @ + 1]
            /\ pc' = [pc EXCEPT ![r] = "awaiting"]
            /\ sent' = sent
       ELSE /\ sent' = [sent EXCEPT ![r] =
                           Append(@, AfterCall(request[r], upstream[r]))]
            /\ pc' = [pc EXCEPT ![r] = "done"]
            /\ calls' = calls
    /\ UNCHANGED <<GROQ_API_KEY, groq_client, inbox, request, upstream,
                   call, reply>>

\* query() after the external call: the response, or the except branch.
Finish(r) ==
    /\ pc[r] = "returned"
    /\ sent' = [sent EXCEPT ![r] = Append(@, AfterCall(request[r], upstream[r]))]
    /\ pc' = [pc EXCEPT ![r] = "done"]
    /\ UNCHANGED <<GROQ_API_KEY, groq_client, inbox, request, upstream,
                   calls, call, reply>>

\* Requests handled together, in any interleaving.
Next ==
    \E r \in Requests :
        \/ pc[r] = "idle" /\ \E body \in Bodies : Receive(r, body)
        \/ Validate(r)
        \/ Enter(r)
        \/ /\ pc[r] = "awaiting"
           /\ \E u \in UpstreamResults : GroqReplies(r, u)
        \/ Finish(r)

Spec == Init /\ [][Next]_vars

\* One request, over every question.
NextSingle ==
    \/ pc[1] = "idle" /\ \E body \in AllBodies : Receive(1, body)
    \/ Validate(1)
    \/ Enter(1)
    \/ /\ pc[1] = "awaiting"
       /\ \E u \in UpstreamResults : GroqReplies(1, u)
    \/ Finish(1)

SpecSingle == Init /\ [][NextSingle]_vars

(***************************************************************************)
(* The stateless endpoints.  Decimals are integers in units of 1/10000.    *)
(***************************************************************************)
Unit == 100 * 100

\* Product of two decimals, a * b / Unit, the first a whole number of
\* cents; divided in two steps to stay within 32-bit integers.
Mul(a, b) == (((a \div 100) * b) \div 100)

OnePercent == 100

Fee_Remitly == 39900

Rate_Wise == 175000

Rate_Remitly == 173000

Rate_USD_MXN == 175000

Rate_USD_COL == 42000000

Rate_USD_BRL == 52000

Rate_Default == 10000

\* The rates dict of get_exchange_rates.
rates ==
    [k \in {"USD-MXN", "USD-COL", "USD-BRL"} |->
        CASE k = "USD-MXN" -> Rate_USD_MXN
          [] k = "USD-COL" -> Rate_USD_COL
          [] k = "USD-BRL" -> Rate_USD_BRL]

\* dict.get(key, default)
Get(d, key, default) == IF key \in DOMAIN d THEN d[key] ELSE default

\* A variant that upper-cases the codes before the lookup.
MutRateKeyUpper(from_currency, to_currency) ==
    LET up(c) == CASE c = "usd" -> "USD" [] c = "mxn" -> "MXN" [] OTHER -> c
    IN  up(from_currency) \o "-" \o up(to_currency)

\* f"{from_currency}-{to_currency}"
RateKey(from_currency, to_currency) == from_currency \o "-" \o to_currency

\* GET /api/v1/rates
get_exchange_rates(from_currency, to_currency) ==
    [from |-> from_currency, to |-> to_currency,
     rate |-> Get(rates, RateKey(from_currency, to_currency), Rate_Default)]

\* A variant whose Wise fee is the flat 1.00 of the amount 100.
MutCompareFlatWiseFee(amount, from_country, to_country) ==
    [comparison |->
        <<[provider |-> "Wise", fee |-> OnePercent * 100,
           exchange_rate |-> Rate_Wise,
           total_received |-> Mul(amount, Rate_Wise) - OnePercent * 100,
           delivery_time |-> "1-2 days"],
          [provider |-> "Remitly", fee |-> Fee_Remitly,
           exchange_rate |-> Rate_Remitly,
           total_received |-> Mul(amount, Rate_Remitly) - Fee_Remitly,
           delivery_time |-> "minutes"]>>,
     best_rate |-> "Wise", fastest |-> "Remitly"]

\* POST /api/v1/compare
compare_providers(amount, from_country, to_country) ==
    [comparison |->
        <<[provider |-> "Wise", fee |-> Mul(amount, OnePercent),
           exchange_rate |-> Rate_Wise,
           total_received |->
               Mul(amount, Rate_Wise) - Mul(amount, OnePercent),
           delivery_time |-> "1-2 days"],
          [provider |-> "Remitly", fee |-> Fee_Remitly,
           exchange_rate |-> Rate_Remitly,
           total_received |-> Mul(amount, Rate_Remitly) - Fee_Remitly,
           delivery_time |-> "minutes"]>>,
     best_rate |-> "Wise", fastest |-> "Remitly"]

\* A variant that reads the priority in any letter case.
MutRecommendAnyCase(amount, from_country, to_country, priority) ==
    LET cost == priority \in {"cost", "Cost", "COST"}
    IN  [recommendation |->
            [provider |-> IF cost THEN "Wise" ELSE "Remitly",
             reason |-> "Best option for " \o priority,
             estimated_cost |->
                 IF cost THEN Mul(amount, OnePercent) ELSE Fee_Remitly]]

\* POST /api/v1/recommend
get_recommendation(amount, from_country, to_country, priority) ==
    [recommendation |->
        [provider |-> IF priority = "cost" THEN "Wise" ELSE "Remitly",
         reason |-> "Best option for " \o priority,
         estimated_cost |->
             IF priority = "cost" THEN Mul(amount, OnePercent)
             ELSE Fee_Remitly]]

\* The default of the priority parameter.
Priority_Default == "cost"

Param(p) == IF p.given THEN p.value ELSE Priority_Default

Cents(c) == c * 100

Amounts ==
    {Cents(c) : c \in (0 - MaxAmount)..MaxAmount}
    \cup {100 * Unit, Cents(10101)}

Countries == {"USA", "MEX", ""}

Currencies ==
    {"USD", "MXN", "COL", "BRL", "usd", "mxn", "", "USD-MXN", "USD-", "-"}

Priorities ==
    {[given |-> FALSE, value |-> ""]}
    \cup {[given |-> TRUE, value |-> v] :
            v \in {"cost", "speed", "Cost", "COST", "", "reliability"}}

GetRates(f, t) ==
    /\ call' = [endpoint |-> "rates", from_currency |-> f, to_currency |-> t]
    /\ reply' = get_exchange_rates(f, t)
    /\ UNCHANGED <<GROQ_API_KEY, groq_client, queryVars>>

Compare(a, f, t) ==
    /\ call' = [endpoint |-> "compare", amount |-> a, from_country |-> f,
                to_country |-> t]
    /\ reply' = compare_providers(a, f, t)
    /\ UNCHANGED <<GROQ_API_KEY, groq_client, queryVars>>

Recommend(a, f, t, p) ==
    /\ call' = [endpoint |-> "recommend", amount |-> a, from_country |-> f,
                to_country |-> t, priority |-> p]
    /\ reply' = get_recommendation(a, f, t, Param(p))
    /\ UNCHANGED <<GROQ_API_KEY, groq_client, queryVars>>

NextStatic ==
    \/ \E f \in Currencies, t \in Currencies : GetRates(f, t)
    \/ \E a \in Amounts, f \in Countries, t \in Countries : Compare(a, f, t)
    \/ \E a \in Amounts, f \in Countries, t \in Countries, p \in Priorities :
           Recommend(a, f, t, p)

SpecStatic == Init /\ [][NextStatic]_vars

(***************************************************************************)
(* Properties of the query endpoint.                                       *)
(***************************************************************************)
\* The request has been answered.
Done(r) == pc[r] = "done"

\* The body has a string question and a context that is absent, null or a
\* mapping.
WellFormed(body) ==
    /\ body.question.kind = "str"
    /\ body.context.kind \notin {"list", "str"}

\* The request got a response (not an error).
Responded(r) ==
    Done(r) /\ Len(sent[r]) = 1 /\ sent[r][1].status = 200

Response(r) == sent[r][1].body[1]

Question(r) == inbox[r].question.text

\* The question contains "compare" in some letter case.
HasKeyword(q) ==
    \E i \in 0..(Len(q) - Len(compare)) :
        \A j \in 1..Len(compare) :
            \E k \in 1..Len(LowerCase) :
                /\ LowerCase[k] = compare[j]
                /\ q[i + j] \in {LowerCase[k], UpperCase[k]}

KeywordIntent(q) == IF HasKeyword(q) THEN "comparison" ELSE "informational"

\* The external call of the request produced a completion that has an
\* answer.
CallSucceeded(r) ==
    /\ upstream[r] # Nothing
    /\ upstream[r].kind = "ok"
    /\ Len(upstream[r].choices) > 0
    /\ ~upstream[r].choices[1].isNone

\* C1 as stated: every well-formed query request that returns a response
\* has intent "comparison" if its question contains "compare" in any letter
\* case, and "informational" otherwise.
C1_AnyResponseIntent ==
    \A r \in Requests :
        Responded(r) => Response(r).intent = KeywordIntent(Question(r))

\* C1 amended: when a credential is configured, every well-formed query
\* request that returns a response has intent "comparison" if its question
\* contains "compare" in any letter case, and "informational" otherwise.
C1_IntentWithCredential ==
    \A r \in Requests :
        (GROQ_API_KEY /\ Responded(r))
            => Response(r).intent = KeywordIntent(Question(r))

\* A mixed-case keyword inside a longer question was classified by the
\* AI branch.
C1_Witness ==
    /\ GROQ_API_KEY
    /\ Responded(1)
    /\ Question(1) = <<"x", "c", "O", "m", "P", "a", "R", "e", "E">>
    /\ Response(1).intent = "comparison"

\* C2: with no credential at process start, every well-formed query request
\* gets a successful response whose answer contains the question verbatim,
\* with intent "informational", sources ["system"], confidence 0.5 and
\* context_used false, whatever the question and the context.
C2_Fallback ==
    \A r \in Requests :
        (~GROQ_API_KEY /\ Done(r) /\ WellFormed(inbox[r]))
            => /\ Responded(r)
               /\ Contains(Response(r).answer, Question(r))
               /\ Response(r).intent = "informational"
               /\ Response(r).sources = <<"system">>
               /\ Response(r).confidence * 2 = Unit
               /\ Response(r).context_used = FALSE

\* The fallback answered a question that has the keyword and came with a
\* non-empty context.
C2_Witness ==
    /\ ~GROQ_API_KEY
    /\ Responded(1)
    /\ HasKeyword(Question(1))
    /\ inbox[1].context.kind = "dict"
    /\ Len(inbox[1].context.keys) > 0
    /\ Response(1).context_used = FALSE

\* C3 as stated: with a credential and a successful external call, any
\* non-null context (an empty mapping included) gives context_used = true,
\* and an omitted or null context gives context_used = false.
C3_NonNullContextUsed ==
    \A r \in Requests :
        (GROQ_API_KEY /\ Responded(r))
            => Response(r).context_used = (inbox[r].context.kind = "dict")

\* C4: with a credential, when the external call raises, or its result has
\* no choices or no content, the request ends in a status 500 error that
\* carries the exception's message and no answer.
C4_UpstreamFailure ==
    \A r \in Requests :
        (GROQ_API_KEY /\ Done(r) /\ WellFormed(inbox[r])
                      /\ ~CallSucceeded(r))
            => /\ Len(sent[r]) = 1
               /\ sent[r][1].status = 500
               /\ sent[r][1].body = <<>>
               /\ sent[r][1].detail # ""
               /\ upstream[r].kind = "raise"
                      => sent[r][1].detail = upstream[r].msg

\* The external call raised and the request ended in the 500 error.
C4_Witness ==
    /\ GROQ_API_KEY
    /\ Done(1)
    /\ upstream[1] = Raise("Error code: 429")
    /\ sent[1] = <<HTTPException(500, "Error code: 429")>>

\* C7: no request changes the client handle, and each request handled
\* together with others ends as the handler alone maps its body and its
\* upstream result.
C7_Independent ==
    /\ groq_client = InitClient(GROQ_API_KEY)
    /\ \A r \in Requests :
           (Done(r) /\ WellFormed(inbox[r]))
               => sent[r] = <<query(InitClient(GROQ_API_KEY),
                                    QueryRequest(inbox[r]), upstream[r])>>

\* Two different requests were in flight together: one failed, the other
\* was answered.
C7_Witness ==
    /\ \A r \in 1..2 : Done(r) /\ calls[r] = 1
    /\ Question(1) # Question(2)
    /\ sent[1][1].status = 500
    /\ sent[2][1].status = 200

\* C8: a malformed body (question missing or not a string, or a context
\* that is neither null nor a mapping) is answered with a client error
\* before the handler runs: no external call, no server error, no answer.
C8_MalformedRejected ==
    \A r \in Requests :
        (pc[r] \notin {"idle", "validate"} /\ ~WellFormed(inbox[r]))
            => /\ Done(r)
               /\ calls[r] = 0
               /\ request[r] = Nothing
               /\ Len(sent[r]) = 1
               /\ sent[r][1].status \in 400..499
               /\ sent[r][1].body = <<>>

\* A body whose question is a number was rejected while a credential was
\* configured.
C8_Witness ==
    /\ GROQ_API_KEY
    /\ Done(1)
    /\ inbox[1].question.kind = "int"
    /\ sent[1] = <<Unprocessable>>

\* C9: a well-formed query request issues exactly one external call when a
\* credential is configured, none otherwise, never a second one, and ends
\* in exactly one outcome, a response or a server error.
C9_OneCallOneOutcome ==
    \A r \in Requests :
        /\ calls[r] <= 1
        /\ ~Done(r) => sent[r] = <<>>
        /\ pc[r] \in {"awaiting", "returned"} => calls[r] = 1
        /\ (Done(r) /\ WellFormed(inbox[r]))
               => /\ calls[r] = IF GROQ_API_KEY THEN 1 ELSE 0
                  /\ Len(sent[r]) = 1
                  /\ sent[r][1].status \in {200, 500}

\* Both requests ended after one call each, the first after the call
\* raised.
C9_Witness ==
    /\ \A r \in 1..2 : Done(r) /\ calls[r] = 1 /\ Len(sent[r]) = 1
    /\ upstream[1].kind = "raise"
    /\ upstream[2].kind = "ok"

(***************************************************************************)
(* Properties of the stateless endpoints.                                  *)
(***************************************************************************)
\* The rate table as pairs of codes.
TableRate(f, t) ==
    CASE <<f, t>> = <<"USD", "MXN">> -> 175 * 1000
      [] <<f, t>> = <<"USD", "COL">> -> Rate_USD_COL
      [] <<f, t>> = <<"USD", "BRL">> -> Rate_USD_BRL
      [] OTHER -> Unit

\* C5: the rates endpoint answers 17.5 for (USD, MXN), the tabulated rate
\* for the other pairs of the table and 1.0 for every other pair, and
\* echoes the two codes unchanged.
C5_Rates ==
    call.endpoint = "rates"
        => /\ reply.from = call.from_currency
           /\ reply.to = call.to_currency
           /\ reply.rate = TableRate(call.from_currency, call.to_currency)

\* A lower-case pair was answered with the default rate.
C5_Witness ==
    /\ call.endpoint = "rates"
    /\ call.from_currency = "usd"
    /\ call.to_currency = "mxn"
    /\ reply.rate = Unit

Fee(comparison, provider) ==
    LET i == CHOOSE k \in 1..Len(comparison) :
                 comparison[k].provider = provider
    IN  comparison[i].fee

\* C6: the compare endpoint answers two entries, Wise then Remitly, with
\* the Wise fee 1% of the amount and the Remitly fee 3.99, best_rate Wise
\* and fastest Remitly, whatever the two countries.
C6_Compare ==
    call.endpoint = "compare"
        => /\ Len(reply.comparison) = 2
           /\ reply.comparison[1].provider = "Wise"
           /\ reply.comparison[2].provider = "Remitly"
           /\ reply.comparison[1].fee * 100 = call.amount
           /\ reply.comparison[2].fee * 100 = 399 * Unit
           /\ reply.best_rate = "Wise"
           /\ reply.fastest = "Remitly"
           /\ \A f \in Countries, t \in Countries :
                  compare_providers(call.amount, f, t) = reply

\* An amount other than 100 was compared.
C6_Witness ==
    /\ call.endpoint = "compare"
    /\ call.amount = Cents(10101)
    /\ call.from_country = "MEX"
    /\ reply.comparison[1].fee = 10101

\* C10: the recommend endpoint names Wise exactly when priority is "cost"
\* (also when it is omitted) and Remitly otherwise, and its estimated_cost
\* is the fee the compare endpoint reports for that provider at that
\* amount.
C10_Recommend ==
    call.endpoint = "recommend"
        => LET wise == ~call.priority.given \/ call.priority.value = "cost"
               rec == reply.recommendation
           IN  /\ rec.provider = IF wise THEN "Wise" ELSE "Remitly"
               /\ rec.estimated_cost
                      = Fee(compare_providers(call.amount, call.from_country,
                                              call.to_country).comparison,
                            rec.provider)

\* A priority that differs from "cost" only in letter case was served.
C10_Witness ==
    /\ call.endpoint = "recommend"
    /\ call.priority = [given |-> TRUE, value |-> "Cost"]
    /\ call.amount = 100 * Unit
    /\ reply.recommendation.provider = "Remitly"
    /\ reply.recommendation.estimated_cost * 100 = 399 * Unit
====
